---------------------------- MODULE Spec2Model ----------------------------
(***************************************************************************)
(* Model of boards/default/distros/br/br.py (FireMarshal's Buildroot       *)
(* distro builder): option fingerprinting (hashOpts), option merging       *)
(* (mergeOpts), the Builder (constructor, configure, buildBaseImage,       *)
(* upToDate), the boot-script overlay (generateBootScriptOverlay) and the  *)
(* console-log window (stripUart).                                         *)
(*                                                                         *)
(* Files are modelled by their content: a byte string is a TLA+ string,    *)
(* a file that does not exist is Absent.  The functions of wlutil, doit    *)
(* and the external tools (make, merge_config.sh) are not in br.py; they   *)
(* are modelled by their interface: they succeed or raise, in one step.    *)
(* Every statement that reads or writes a file (open, read, write,         *)
(* shutil.copy, shutil.move, unlink, touch, chmod) is one step per file    *)
(* operation; each such operation may raise OSError, and the steps of      *)
(* concurrent calls, file writes and initOpts calls interleave between     *)
(* them.                                                                   *)
(***************************************************************************)
EXTENDS Naturals, Sequences, FiniteSets, TLC

VARIABLES
    \* --- fingerprint / Builder identity / upToDate ---
    files,        \* path on disk -> byte content of the fragment file
    bOpts,        \* the opts dict the Builder holds as self.opts (NoBuilder before)
    bName,        \* self.name (None until __init__ has set it)
    bOutputImg,   \* self.outputImg
    savedOpt,     \* option value last recorded by config_changed ("unset" before)
    savedRepo,    \* repository status last recorded by config_changed
    repoStatus,   \* what checkGitStatus(buildroot) returns now
    upToDateRes,  \* what the last upToDate() call returned (NotCalled while it runs)
    hCall,        \* the call hashOpts is running for: "init", "upToDate", "none"
    hTodo,        \* hashOpts: fragments of the list it iterates not read yet
    hBytes,       \* hashOpts: bytes fed to the digest so far
    hRepo,        \* upToDate: what checkGitStatus returned to this call
    \* --- mergeOpts ---
    mBase, mNew, mThird,  \* three ['distro']['opts'] objects
    mAB, mABC,            \* mergeOpts(mBase, mNew), mergeOpts(mAB, mThird)
    \* --- stripUart ---
    uartLines,    \* captured console lines
    uartOut,      \* value returned by stripUart(uartLines)
    \* --- boot-script overlay ---
    ovScript,     \* the file overlay/firesim.sh
    ovInit,       \* the file overlay/etc/init.d/S99run
    ovPc,         \* caller -> file operation of generateBootScriptOverlay it is at
    ovArg,        \* caller -> script and args of the call it is running
    ovOut,        \* caller -> how its last call ended
    ovFd,         \* caller -> the firesim.sh it opened is still the one at the path
    ovAlone,      \* caller -> no other call has run during its call
    ovFollows,    \* caller -> its call began right after a script was installed
    ovInstalled,  \* the last call that ended installed a script, undisturbed
    ovCount,      \* number of calls started
    \* --- configure / buildBaseImage ---
    pc,           \* builder -> statement of configure()/buildBaseImage() it is at
    mid,          \* builder -> how far inside that statement ("" at its start)
    op,           \* builder -> the method being run
    log,          \* builder -> external steps run by the current call
    outcome,      \* builder -> how the last call ended
    madeImg,      \* builder -> image written by its own make in this call
    outAtStart,   \* builder -> content of its outputImg when the call began
    runs,         \* builder -> number of calls started
    toolVer,      \* builder -> local toolVer
    opened,       \* builder -> the source file its copy has opened
    imageDir,     \* where image-dir lies
    imgOut,       \* buildroot/output/images/rootfs.ext2
    images,       \* image-dir: name -> content of <name>.img
    dotConfig,    \* buildroot/.config
    genToolKfrag, \* gen-dir/brToolKfrag
    genDefConfig  \* gen-dir/brDefConfig

hashVars    == <<files, bOpts, bName, bOutputImg, savedOpt, savedRepo, repoStatus, upToDateRes,
                 hCall, hTodo, hBytes, hRepo>>
mergeVars   == <<mBase, mNew, mThird, mAB, mABC>>
uartVars    == <<uartLines, uartOut>>
overlayVars == <<ovScript, ovInit, ovPc, ovArg, ovOut, ovFd, ovAlone, ovFollows,
                 ovInstalled, ovCount>>
buildVars   == <<pc, mid, op, log, outcome, madeImg, outAtStart, runs, toolVer, opened,
                 imageDir, imgOut, images, dotConfig, genToolKfrag, genDefConfig>>
vars        == <<hashVars, mergeVars, uartVars, overlayVars, buildVars>>

\* What the operations of one part leave alone.
notHashVars    == <<mergeVars, uartVars, overlayVars, buildVars>>
notMergeVars   == <<hashVars, uartVars, overlayVars, buildVars>>
notUartVars    == <<hashVars, mergeVars, overlayVars, buildVars>>
notOverlayVars == <<hashVars, mergeVars, uartVars, buildVars>>
notBuildVars   == <<hashVars, mergeVars, uartVars, overlayVars>>

\* Python's None
None == "None"

-----------------------------------------------------------------------------
(* Bounds of the model *)

\* longest fragment list of one option set
MaxFrags == 2
\* longest console log given to stripUart
MaxLines == 5
\* number of generateBootScriptOverlay calls in one behaviour
MaxCalls == 2
\* number of configure()/buildBaseImage() calls made in one behaviour
MaxRuns == 2

-----------------------------------------------------------------------------
(* hashOpts, Builder.__init__, Builder.upToDate *)

\* The fragment paths an option set is written with (relative paths), the
\* directory they are opened from (the working directory of the process),
\* the values cfg['workdir'] may have, and the fragment files on disk.
FragPaths == {"f1", "f2"}
Cwd       == "/cwd"
Workdirs  == {"/cwd", "/wd"}
DiskPaths == {w \o "/" \o p : w \in Workdirs, p \in FragPaths}
\* The fragment files that are rewritten while the Builder lives: those in
\* the working directory; the files of the other directory keep the content
\* OtherDirFiles gives them.
WritablePaths == {Cwd \o "/" \o p : p \in FragPaths}
OtherDirFiles == [p \in DiskPaths \ WritablePaths |-> IF p = "/wd/f1" THEN "nr" ELSE "a"]

\* The byte contents a fragment file may have. "fm" and "nr" are two contents
\* whose MD5 digests share their first two bytes.
Contents  == {"a", "fm", "nr"}

\* pathlib.Path(p).is_absolute()
isAbsolute(p) == Len(p) > 0 /\ SubSeq(p, 1, 1) = "/"

\* The file open(p, 'rb') reads: a relative path is taken from the working
\* directory of the process.
resolve(p) == IF isAbsolute(p) THEN p ELSE Cwd \o "/" \o p

RECURSIVE SeqsUpTo(_, _)
SeqsUpTo(S, n) ==
    IF n = 0 THEN {<<>>}
    ELSE LET shorter == SeqsUpTo(S, n - 1)
         IN  shorter \cup {Append(s, x) : s \in {t \in shorter : Len(t) = n - 1}, x \in S}

\* Option sets: with a fragment list (possibly empty) or without one, and
\* with or without an unrelated field.
OptSets ==
    {[configs |-> c] : c \in SeqsUpTo(FragPaths, MaxFrags)}
    \cup {[configs |-> c, extra |-> "x"] : c \in SeqsUpTo(FragPaths, 1)}
    \cup {[extra |-> "x"], [extra |-> "y"]}

\* hashlib.md5() over the bytes s, digest()[0:2]: the first two bytes of the
\* MD5 digest, tabulated for every byte string the model can hash.
md5Digest2(s) ==
    CASE s = "" -> <<212, 29>>
      [] s = "a" -> <<12, 193>>
      [] s = "aa" -> <<65, 36>>
      [] s = "fm" -> <<10, 179>>
      [] s = "nr" -> <<10, 179>>
      [] s = "aaa" -> <<71, 188>>
      [] s = "afm" -> <<224, 42>>
      [] s = "anr" -> <<69, 117>>
      [] s = "fma" -> <<140, 27>>
      [] s = "nra" -> <<52, 186>>
      [] s = "aafm" -> <<236, 2>>
      [] s = "aanr" -> <<192, 165>>
      [] s = "afma" -> <<50, 114>>
      [] s = "anra" -> <<99, 112>>
      [] s = "fmaa" -> <<184, 126>>
      [] s = "fmfm" -> <<137, 69>>
      [] s = "fmnr" -> <<243, 29>>
      [] s = "nraa" -> <<79, 234>>
      [] s = "nrfm" -> <<103, 53>>
      [] s = "nrnr" -> <<112, 193>>
      [] s = "afmfm" -> <<211, 171>>
      [] s = "afmnr" -> <<88, 122>>
      [] s = "anrfm" -> <<86, 115>>
      [] s = "anrnr" -> <<70, 199>>
      [] s = "fmafm" -> <<81, 155>>
      [] s = "fmanr" -> <<188, 176>>
      [] s = "fmfma" -> <<200, 171>>
      [] s = "fmnra" -> <<215, 231>>
      [] s = "nrafm" -> <<84, 110>>
      [] s = "nranr" -> <<110, 219>>
      [] s = "nrfma" -> <<185, 15>>
      [] s = "nrnra" -> <<118, 46>>
      [] s = "fmfmfm" -> <<4, 182>>
      [] s = "fmfmnr" -> <<147, 39>>
      [] s = "fmnrfm" -> <<43, 66>>
      [] s = "fmnrnr" -> <<232, 101>>
      [] s = "nrfmfm" -> <<206, 75>>
      [] s = "nrfmnr" -> <<110, 66>>
      [] s = "nrnrfm" -> <<26, 191>>
      [] s = "nrnrnr" -> <<75, 152>>

HexDigits == <<"0", "1", "2", "3", "4", "5", "6", "7", "8", "9", "a", "b", "c", "d", "e", "f">>

\* bytes.hex(): two lowercase hexadecimal digits per byte, in order.
RECURSIVE hex(_)
hex(bytes) ==
    IF bytes = <<>> THEN ""
    ELSE HexDigits[(Head(bytes) \div 16) + 1] \o HexDigits[(Head(bytes) % 16) + 1]
         \o hex(Tail(bytes))

\* h.digest()[0:2].hex() of a digest context fed the bytes s.
digestHex(s) == hex(md5Digest2(s))

\* The loop of hashOpts: every file read in full, in list order, into one
\* digest context; h.update(a); h.update(b) hashes the bytes a followed by b.
RECURSIVE hashedBytes(_, _)
hashedBytes(configs, fs) ==
    IF configs = <<>> THEN ""
    ELSE fs[resolve(Head(configs))] \o hashedBytes(Tail(configs), fs)

\* hashOpts with the loop stopping after the first fragment.
hashOptsFirstOnly(opts, fs) ==
    IF "configs" \in DOMAIN opts
    THEN digestHex(hashedBytes(IF opts.configs = <<>> THEN <<>>
                               ELSE <<Head(opts.configs)>>, fs))
    ELSE None

\* hashOpts(opts) with no write to a fragment file between its reads.
hashOpts(opts, fs) ==
    IF "configs" \in DOMAIN opts
    THEN digestHex(hashedBytes(opts.configs, fs))
    ELSE None

\* Builder.__init__: self.name
BuilderName(opts, fs) ==
    LET hashed == hashOpts(opts, fs)
    IN  IF hashed # None THEN "br." \o hashed ELSE "br"

\* Builder.__init__: self.outputImg = <image-dir>/<name>.img
OutputImg(name) == "image-dir/" \o name \o ".img"

\* wlutil.config_changed(value): reports changed when value differs from the
\* value recorded for the task.
configChanged(value, saved) == value # saved

\* Builder.upToDate with no change between its reads: the two signals, each
\* evaluated afresh.
upToDate(opts, fs, repo, sRepo, sOpt) ==
    [called |-> TRUE,
     repo |-> configChanged(repo, sRepo),
     opt |-> configChanged(hashOpts(opts, fs), sOpt)]

\* initOpts, lines 77-83: a relative path is joined to cfg['workdir'], an
\* absolute one is kept.
cleanPaths(workdir, configs) ==
    [i \in 1..Len(configs) |->
        IF isAbsolute(configs[i]) THEN configs[i] ELSE workdir \o "/" \o configs[i]]

NoBuilder   == [builder |-> "none"]
NotCalled   == [called |-> FALSE]
RepoStates  == {"rev1", "rev2"}
DistroNames == {"br", "fedora"}

\* Whether hashOpts(opts) reads a file.
readsFiles(opts) == "configs" \in DOMAIN opts /\ opts.configs # <<>>

HashParked ==
    /\ files = [p \in DiskPaths |-> "a"]
    /\ bOpts = NoBuilder /\ bName = None /\ bOutputImg = None
    /\ savedOpt = "unset" /\ savedRepo = "unset"
    /\ repoStatus = "rev1" /\ upToDateRes = NotCalled
    /\ hCall = "none" /\ hTodo = <<>> /\ hBytes = "" /\ hRepo = "unset"

HashInit ==
    /\ files \in {f \in [DiskPaths -> Contents] :
                    \A p \in DOMAIN OtherDirFiles : f[p] = OtherDirFiles[p]}
    /\ bOpts = NoBuilder /\ bName = None /\ bOutputImg = None
    /\ savedOpt = "unset" /\ savedRepo = "unset"
    /\ repoStatus = "rev1" /\ upToDateRes = NotCalled
    /\ hCall = "none" /\ hTodo = <<>> /\ hBytes = "" /\ hRepo = "unset"

\* Builder(opts), lines 94-95: self.opts = opts, then hashOpts(self.opts)
\* starts to iterate the fragment list; with no file to read, lines 96-101
\* follow at once.
NewBuilder ==
    /\ UNCHANGED notHashVars
    /\ bOpts = NoBuilder /\ hCall = "none"
    /\ \E o \in OptSets :
         /\ bOpts' = o
         /\ IF readsFiles(o)
            THEN /\ hCall' = "init" /\ hTodo' = o.configs /\ hBytes' = ""
                 /\ UNCHANGED <<bName, bOutputImg>>
            ELSE /\ bName' = BuilderName(o, files)
                 /\ bOutputImg' = OutputImg(BuilderName(o, files))
                 /\ UNCHANGED <<hCall, hTodo, hBytes>>
    /\ UNCHANGED <<files, savedOpt, savedRepo, repoStatus, upToDateRes, hRepo>>

\* builder.upToDate(), line 176 and the start of line 177: checkGitStatus is
\* read, then hashOpts(self.opts) starts to iterate the fragment list that
\* self.opts holds now; with no file to read the call returns at once.
UpToDate ==
    /\ UNCHANGED notHashVars
    /\ bName # None /\ hCall = "none"
    /\ IF readsFiles(bOpts)
       THEN /\ hCall' = "upToDate" /\ hTodo' = bOpts.configs /\ hBytes' = ""
            /\ hRepo' = repoStatus
            /\ upToDateRes' = NotCalled
       ELSE /\ upToDateRes' = upToDate(bOpts, files, repoStatus, savedRepo, savedOpt)
            /\ UNCHANGED <<hCall, hTodo, hBytes, hRepo>>
    /\ UNCHANGED <<files, bOpts, bName, bOutputImg, savedOpt, savedRepo, repoStatus>>

\* hashOpts, lines 54-56, one iteration: the next fragment file is opened
\* and read in full into the digest; an open or read that raises ends the
\* call (and the construction of the Builder). After the last fragment,
\* lines 58-60 give the fingerprint and the caller goes on: __init__ sets
\* name and outputImg, upToDate returns its two signals.
ReadFragment ==
    /\ UNCHANGED notHashVars
    /\ hCall # "none"
    /\ \E ok \in BOOLEAN :
         IF ok
         THEN LET bytes == hBytes \o files[resolve(Head(hTodo))]
              IN  IF Tail(hTodo) # <<>>
                  THEN /\ hBytes' = bytes /\ hTodo' = Tail(hTodo)
                       /\ UNCHANGED <<hCall, hRepo, bOpts, bName, bOutputImg, upToDateRes>>
                  ELSE /\ hCall' = "none" /\ hTodo' = <<>> /\ hBytes' = ""
                       /\ hRepo' = "unset"
                       /\ UNCHANGED bOpts
                       /\ IF hCall = "init"
                          THEN /\ bName' = "br." \o digestHex(bytes)
                               /\ bOutputImg' = OutputImg("br." \o digestHex(bytes))
                               /\ UNCHANGED upToDateRes
                          ELSE /\ upToDateRes' =
                                    [called |-> TRUE,
                                     repo |-> configChanged(hRepo, savedRepo),
                                     opt |-> configChanged(digestHex(bytes), savedOpt)]
                               /\ UNCHANGED <<bName, bOutputImg>>
         ELSE /\ hCall' = "none" /\ hTodo' = <<>> /\ hBytes' = "" /\ hRepo' = "unset"
              /\ UNCHANGED <<bName, bOutputImg>>
              /\ IF hCall = "init"
                 THEN /\ bOpts' = NoBuilder
                      /\ UNCHANGED upToDateRes
                 ELSE /\ upToDateRes' = [called |-> FALSE, raised |-> "OSError"]
                      /\ UNCHANGED bOpts
    /\ UNCHANGED <<files, savedOpt, savedRepo, repoStatus>>

\* initOpts(cfg) for a cfg whose cfg['distro']['opts'] is the dict the
\* Builder holds: the list under 'configs' is replaced in that dict by a
\* new list of cleaned paths. The call raises ValueError for another distro
\* name and KeyError for opts without 'configs', and then leaves the dict as
\* it was. A hashOpts call under way iterates the list it started with.
InitOpts ==
    /\ UNCHANGED notHashVars
    /\ bOpts # NoBuilder
    /\ \E name \in DistroNames, workdir \in Workdirs :
         IF name # "br" \/ "configs" \notin DOMAIN bOpts
         THEN UNCHANGED bOpts
         ELSE bOpts' = [bOpts EXCEPT !.configs = cleanPaths(workdir, @)]
    /\ UNCHANGED <<files, bName, bOutputImg, savedOpt, savedRepo, repoStatus, upToDateRes,
                   hCall, hTodo, hBytes, hRepo>>

\* The task ran and the dependency tracker recorded the values of both signals.
RecordUpToDate ==
    /\ UNCHANGED notHashVars
    /\ bName # None
    /\ savedOpt' = hashOpts(bOpts, files)
    /\ savedRepo' = repoStatus
    /\ UNCHANGED <<files, bOpts, bName, bOutputImg, repoStatus, upToDateRes,
                   hCall, hTodo, hBytes, hRepo>>

\* The content of one fragment file is changed on disk.
WriteFragment ==
    /\ UNCHANGED notHashVars
    /\ bOpts # NoBuilder
    /\ \E p \in WritablePaths, c \in Contents :
         /\ c # files[p]
         /\ files' = [files EXCEPT ![p] = c]
    /\ UNCHANGED <<bOpts, bName, bOutputImg, savedOpt, savedRepo, repoStatus, upToDateRes,
                   hCall, hTodo, hBytes, hRepo>>

\* The buildroot checkout moves to another revision.
RepoChange ==
    /\ UNCHANGED notHashVars
    /\ bOpts # NoBuilder
    /\ \E r \in RepoStates : r # repoStatus /\ repoStatus' = r
    /\ UNCHANGED <<files, bOpts, bName, bOutputImg, savedOpt, savedRepo, upToDateRes,
                   hCall, hTodo, hBytes, hRepo>>

-----------------------------------------------------------------------------
(* mergeOpts *)

\* mergeOpts with the two sides exchanged.
mergeOptsSwapped(base, new) == [configs |-> new.configs \o base.configs]

\* mergeOpts: a new dict holding a new list, base's fragments then new's.
mergeOpts(base, new) == [configs |-> base.configs \o new.configs]

NotMerged  == [merged |-> FALSE]
MergeInputs == {[configs |-> c] : c \in SeqsUpTo(FragPaths, MaxFrags)}

MergeParked ==
    /\ mBase = [configs |-> <<>>] /\ mNew = [configs |-> <<>>]
    /\ mThird = [configs |-> <<>>]
    /\ mAB = NotMerged /\ mABC = NotMerged

MergeInit ==
    /\ mBase \in MergeInputs /\ mNew \in MergeInputs /\ mThird \in MergeInputs
    /\ mAB = NotMerged /\ mABC = NotMerged

\* mAB = mergeOpts(mBase, mNew)
MergeFirst ==
    /\ UNCHANGED notMergeVars
    /\ mAB = NotMerged
    /\ mAB' = mergeOpts(mBase, mNew)
    /\ UNCHANGED <<mBase, mNew, mThird, mABC>>

\* mABC = mergeOpts(mAB, mThird)
MergeSecond ==
    /\ UNCHANGED notMergeVars
    /\ mAB # NotMerged /\ mABC = NotMerged
    /\ mABC' = mergeOpts(mAB, mThird)
    /\ UNCHANGED <<mBase, mNew, mThird, mAB>>

-----------------------------------------------------------------------------
(* Builder.stripUart *)

StartPat == "launching firesim workload run/command"
DonePat  == "firesim workload run/command done"

\* re.match(pattern, line) for a pattern without metacharacters: the pattern
\* is matched at the beginning of the line; text may follow it.
reMatch(pattern, line) ==
    /\ Len(line) >= Len(pattern)
    /\ SubSeq(line, 1, Len(pattern)) = pattern

\* One iteration of the loop of stripUart on line l; st holds the locals
\* (stripped, inBody) and whether the loop was left by break.
stripStep(st, l) ==
    IF st.broke THEN st
    ELSE IF ~st.inBody
         THEN IF reMatch(StartPat, l) THEN [st EXCEPT !.inBody = TRUE] ELSE st
         ELSE IF reMatch(DonePat, l)
              THEN [st EXCEPT !.broke = TRUE]
              ELSE [st EXCEPT !.stripped = Append(@, l)]

RECURSIVE stripLoop(_, _)
stripLoop(st, lines) ==
    IF lines = <<>> THEN st
    ELSE stripLoop(stripStep(st, Head(lines)), Tail(lines))

\* One iteration of a loop that skips a completion line instead of breaking.
stripStepNoBreak(st, l) ==
    IF ~st.inBody
    THEN IF reMatch(StartPat, l) THEN [st EXCEPT !.inBody = TRUE] ELSE st
    ELSE IF reMatch(DonePat, l) THEN st
         ELSE [st EXCEPT !.stripped = Append(@, l)]

RECURSIVE stripLoopNoBreak(_, _)
stripLoopNoBreak(st, lines) ==
    IF lines = <<>> THEN st
    ELSE stripLoopNoBreak(stripStepNoBreak(st, Head(lines)), Tail(lines))

\* stripUart without the break.
stripUartNoBreak(lines) ==
    stripLoopNoBreak([stripped |-> <<>>, inBody |-> FALSE, broke |-> FALSE], lines).stripped

\* stripUart(lines)
stripUart(lines) ==
    stripLoop([stripped |-> <<>>, inBody |-> FALSE, broke |-> FALSE], lines).stripped

\* Console lines: other text, each sentinel alone, followed by text, and
\* preceded by text.
UartLineSet ==
    {"noise", StartPat, StartPat \o " now", "[0.1] " \o StartPat,
     DonePat, DonePat \o "!", "# " \o DonePat}

NotStripped == [called |-> FALSE]

UartParked == uartLines = <<>> /\ uartOut = NotStripped

UartInit == uartLines \in SeqsUpTo(UartLineSet, MaxLines) /\ uartOut = NotStripped

\* builder.stripUart(uartLines)
StripUart ==
    /\ UNCHANGED notUartVars
    /\ uartOut = NotStripped
    /\ uartOut' = [called |-> TRUE, ret |-> stripUart(uartLines)]
    /\ UNCHANGED uartLines

-----------------------------------------------------------------------------
(* Files *)

AbsentFile == [exists |-> FALSE]
File(content, mode) == [exists |-> TRUE, content |-> content, mode |-> mode]

\* open(path, 'w'): the file is created (mode 0666 less umask 022) or
\* truncated, keeping its mode.
openW(f) == File("", IF f.exists THEN f.mode ELSE "0644")

\* The bytes s written at the start of a file opened before: they replace
\* its first Len(s) bytes, what another writer put after them stays.
writeAt0(f, s) == [f EXCEPT !.content = s \o SubSeq(@, Len(s) + 1, Len(@))]

\* Numbers of bytes that reach the disk when the write of text fails.
WriteCuts(text) == 0 .. (Len(text) - 1)

\* The file after the write of text to the opened file raised OSError.
failedWrite(f, text) == {writeAt0(f, SubSeq(text, 1, n)) : n \in WriteCuts(text)}

\* Path.touch(): creates an empty file when none exists (mode 0666 less umask 022).
touch(f) == IF f.exists THEN f ELSE File("", "0644")
\* Path.chmod(mode), os.chmod(path, mode)
chmod(f, mode) == [f EXCEPT !.mode = mode]
\* Path.unlink()
unlink(f) == AbsentFile

\* A call that is under way, and no call made yet.
Running == [kind |-> "running", value |-> "", cause |-> ""]
NotRun  == [kind |-> "notrun", value |-> "", cause |-> ""]

-----------------------------------------------------------------------------
(* initTemplate, Builder.generateBootScriptOverlay *)

\* initTemplate: literal text, the escape $$ and the placeholder $args.
initTemplate ==
    << [kind |-> "lit", text |-> "#!/bin/sh\n\nSYSLOGD_ARGS=-n\nKLOGD_ARGS=-n\n\nstart() {\n    echo \"launching firesim workload run/command\" && /firesim.sh "],
       [kind |-> "var", text |-> "args"],
       [kind |-> "lit", text |-> " && echo \"firesim workload run/command done\"\n}\n\ncase \""],
       [kind |-> "esc", text |-> "$$"],
       [kind |-> "lit", text |-> "1\" in\n  start)\n  start\n  ;;\n  stop)\n  #stop\n  ;;\n  restart|reload)\n  start\n  ;;\n  *)\n  echo \"Usage: "],
       [kind |-> "esc", text |-> "$$"],
       [kind |-> "lit", text |-> "0 {start|stop|restart}\"\n  exit 1\nesac\n\nexit"] >>

\* string.Template.substitute(args=value): $$ becomes $, $args becomes value.
RECURSIVE substitute(_, _)
substitute(template, value) ==
    IF template = <<>> THEN ""
    ELSE LET part == Head(template)
             out  == CASE part.kind = "lit" -> part.text
                      [] part.kind = "esc" -> "$"
                      [] part.kind = "var" -> value
         IN  out \o substitute(Tail(template), value)

\* sep.join(list)
RECURSIVE join(_, _)
join(sep, list) ==
    IF list = <<>> THEN ""
    ELSE IF Len(list) = 1 THEN list[1]
    ELSE list[1] \o sep \o join(sep, Tail(list))

\* The scripts a caller may name; missing.sh does not exist.
ScriptFiles ==
    [p \in {"run.sh", "missing.sh"} |->
       CASE p = "run.sh" -> File("echo run", "0644")
         [] p = "missing.sh" -> AbsentFile]

NoScript == [given |-> FALSE]
ScriptInputs == {NoScript} \cup {[given |-> TRUE, path |-> p] : p \in DOMAIN ScriptFiles}
NoArgs == [given |-> FALSE]
ArgInputs ==
    {NoArgs} \cup {[given |-> TRUE, list |-> l] : l \in {<<>>, <<"--flag", "x">>}}

\* Lines 201-204: the text written to S99run.
wrapperText(args) ==
    IF ~args.given
    THEN substitute(initTemplate, "")
    ELSE substitute(initTemplate, join(" ", args.list))

\* The processes that call generateBootScriptOverlay (a static method:
\* every call works on the one overlay directory of the module).
Callers == {"c1", "c2"}
OtherCaller(c) == CHOOSE d \in Callers : d # c

\* Line 206: return overlay
ReturnedOverlay == [kind |-> "returned", value |-> "overlay", cause |-> ""]
\* The call ends with the exception exc raised: nothing is caught.
Raised(exc) == [kind |-> "raised", value |-> "", cause |-> exc]

NoCall == [script |-> NoScript, args |-> NoArgs]

OverlayParked ==
    /\ ovScript = File("", "0755")
    /\ ovInit = File(substitute(initTemplate, ""), "0755")
    /\ ovPc = [c \in Callers |-> "idle"]
    /\ ovArg = [c \in Callers |-> NoCall]
    /\ ovOut = [c \in Callers |-> NotRun]
    /\ ovFd = [c \in Callers |-> FALSE]
    /\ ovAlone = [c \in Callers |-> FALSE]
    /\ ovFollows = [c \in Callers |-> FALSE]
    /\ ovInstalled = FALSE
    /\ ovCount = 0

\* The overlay directory as found on disk: the placeholder boot script is
\* there or not; the init wrapper is the one generated without arguments.
OverlayInit ==
    /\ ovScript \in {AbsentFile, File("", "0755")}
    /\ ovInit = File(substitute(initTemplate, ""), "0755")
    /\ ovPc = [c \in Callers |-> "idle"]
    /\ ovArg = [c \in Callers |-> NoCall]
    /\ ovOut = [c \in Callers |-> NotRun]
    /\ ovFd = [c \in Callers |-> FALSE]
    /\ ovAlone = [c \in Callers |-> FALSE]
    /\ ovFollows = [c \in Callers |-> FALSE]
    /\ ovInstalled = FALSE
    /\ ovCount = 0

\* The call of c goes on to the file operation next.
OvGoto(c, next) ==
    /\ ovPc' = [ovPc EXCEPT ![c] = next]
    /\ UNCHANGED <<ovArg, ovOut, ovAlone, ovFollows, ovInstalled, ovCount>>

\* The call of c ends, returning or raising.
OvEnd(c, out) ==
    /\ ovPc' = [ovPc EXCEPT ![c] = "idle"]
    /\ ovOut' = [ovOut EXCEPT ![c] = out]
    /\ ovInstalled' = (ovArg[c].script.given /\ out = ReturnedOverlay /\ ovAlone[c])
    /\ ovArg' = [ovArg EXCEPT ![c] = NoCall]
    /\ UNCHANGED <<ovAlone, ovFollows, ovCount>>

\* Builder.generateBootScriptOverlay(script, args) is called, lines 188-189.
GenerateBootScriptOverlay(c) ==
    /\ UNCHANGED notOverlayVars
    /\ ovPc[c] = "idle"
    /\ ovCount < MaxCalls
    /\ ovCount' = ovCount + 1
    /\ \E script \in ScriptInputs, args \in ArgInputs :
         /\ ovArg' = [ovArg EXCEPT ![c] = [script |-> script, args |-> args]]
         /\ ovPc' = [ovPc EXCEPT ![c] = IF script.given THEN "copyOpenSrc" ELSE "unlink"]
    /\ ovOut' = [ovOut EXCEPT ![c] = Running]
    /\ ovAlone' = [d \in Callers |-> d = c /\ ovPc[OtherCaller(c)] = "idle"]
    /\ ovFollows' = [d \in Callers |-> d = c /\ ovPc[OtherCaller(c)] = "idle" /\ ovInstalled]
    /\ UNCHANGED <<ovScript, ovInit, ovFd, ovInstalled>>

\* line 190, shutil.copy, first part: the script is opened for reading
\* (FileNotFoundError without it)
CopyOpenSrc(c) ==
    /\ UNCHANGED notOverlayVars
    /\ ovPc[c] = "copyOpenSrc"
    /\ IF ~ScriptFiles[ovArg[c].script.path].exists
       THEN OvEnd(c, Raised("FileNotFoundError"))
       ELSE \E ok \in BOOLEAN :
              IF ok THEN OvGoto(c, "copyOpenDst") ELSE OvEnd(c, Raised("OSError"))
    /\ UNCHANGED <<ovScript, ovInit, ovFd>>

\* line 190, shutil.copy, second part: firesim.sh is opened for writing,
\* which creates or truncates it; when the open raises the file is as it was
CopyOpenDst(c) ==
    /\ UNCHANGED notOverlayVars
    /\ ovPc[c] = "copyOpenDst"
    /\ \E ok \in BOOLEAN :
         IF ok THEN /\ OvGoto(c, "copyData")
                    /\ ovScript' = openW(ovScript)
                    /\ ovFd' = [ovFd EXCEPT ![c] = TRUE]
         ELSE /\ OvEnd(c, Raised("OSError"))
              /\ UNCHANGED <<ovScript, ovFd>>
    /\ UNCHANGED ovInit

\* line 190, shutil.copy, third part: the content of the script is written
\* to the file that was opened, which is no longer the one at the path when
\* another call has unlinked it; a copy that fails leaves a part of it
CopyData(c) ==
    /\ UNCHANGED notOverlayVars
    /\ ovPc[c] = "copyData"
    /\ ovFd' = [ovFd EXCEPT ![c] = FALSE]
    /\ LET text == ScriptFiles[ovArg[c].script.path].content
       IN  \E ok \in BOOLEAN :
             IF ok THEN /\ OvGoto(c, "copymode")
                        /\ ovScript' = IF ovFd[c] THEN writeAt0(ovScript, text) ELSE ovScript
             ELSE /\ OvEnd(c, Raised("OSError"))
                  /\ IF ovFd[c] THEN ovScript' \in failedWrite(ovScript, text)
                     ELSE UNCHANGED ovScript
    /\ UNCHANGED ovInit

\* line 190, shutil.copy, last part: copymode, a chmod of firesim.sh to the
\* permission bits of the script (FileNotFoundError without firesim.sh)
Copymode(c) ==
    /\ UNCHANGED notOverlayVars
    /\ ovPc[c] = "copymode"
    /\ IF ~ovScript.exists
       THEN /\ OvEnd(c, Raised("FileNotFoundError"))
            /\ UNCHANGED ovScript
       ELSE \E ok \in BOOLEAN :
              IF ok THEN /\ OvGoto(c, "chmod")
                         /\ ovScript' = chmod(ovScript, ScriptFiles[ovArg[c].script.path].mode)
              ELSE /\ OvEnd(c, Raised("OSError"))
                   /\ UNCHANGED ovScript
    /\ UNCHANGED <<ovInit, ovFd>>

\* line 192: scriptDst.unlink() (FileNotFoundError without firesim.sh); a
\* file another call has opened is no longer the one at the path
Unlink(c) ==
    /\ UNCHANGED notOverlayVars
    /\ ovPc[c] = "unlink"
    /\ IF ~ovScript.exists
       THEN /\ OvEnd(c, Raised("FileNotFoundError"))
            /\ UNCHANGED <<ovScript, ovFd>>
       ELSE \E ok \in BOOLEAN :
              IF ok THEN /\ OvGoto(c, "touch")
                         /\ ovScript' = unlink(ovScript)
                         /\ ovFd' = [d \in Callers |-> FALSE]
              ELSE /\ OvEnd(c, Raised("OSError"))
                   /\ UNCHANGED <<ovScript, ovFd>>
    /\ UNCHANGED ovInit

\* line 196: scriptDst.touch(); when it raises there is no file at the path
\* unless another call has made one
Touch(c) ==
    /\ UNCHANGED notOverlayVars
    /\ ovPc[c] = "touch"
    /\ \E ok \in BOOLEAN :
         IF ok THEN /\ OvGoto(c, "chmod")
                    /\ ovScript' = touch(ovScript)
         ELSE /\ OvEnd(c, Raised("OSError"))
              /\ UNCHANGED ovScript
    /\ UNCHANGED <<ovInit, ovFd>>

\* line 198: scriptDst.chmod(0o755) (FileNotFoundError without firesim.sh)
Chmod(c) ==
    /\ UNCHANGED notOverlayVars
    /\ ovPc[c] = "chmod"
    /\ IF ~ovScript.exists
       THEN /\ OvEnd(c, Raised("FileNotFoundError"))
            /\ UNCHANGED ovScript
       ELSE \E ok \in BOOLEAN :
              IF ok THEN /\ OvGoto(c, "openInit")
                         /\ ovScript' = chmod(ovScript, "0755")
              ELSE /\ OvEnd(c, Raised("OSError"))
                   /\ UNCHANGED ovScript
    /\ UNCHANGED <<ovInit, ovFd>>

\* line 200: open(S99run, 'w') creates or truncates the file; when it
\* raises the file is as it was
OpenInit(c) ==
    /\ UNCHANGED notOverlayVars
    /\ ovPc[c] = "openInit"
    /\ \E ok \in BOOLEAN :
         IF ok THEN /\ OvGoto(c, "writeInit")
                    /\ ovInit' = openW(ovInit)
         ELSE /\ OvEnd(c, Raised("OSError"))
              /\ UNCHANGED ovInit
    /\ UNCHANGED <<ovScript, ovFd>>

\* lines 201-206: the text is buffered and reaches the file when the with
\* block closes it; a write that fails leaves the bytes written so far; the
\* method returns overlay after it
WriteInit(c) ==
    /\ UNCHANGED notOverlayVars
    /\ ovPc[c] = "writeInit"
    /\ \E ok \in BOOLEAN :
         IF ok THEN /\ OvEnd(c, ReturnedOverlay)
                    /\ ovInit' = writeAt0(ovInit, wrapperText(ovArg[c].args))
         ELSE /\ OvEnd(c, Raised("OSError"))
              /\ ovInit' \in failedWrite(ovInit, wrapperText(ovArg[c].args))
    /\ UNCHANGED <<ovScript, ovFd>>

-----------------------------------------------------------------------------
(* Builder.configure, Builder.buildBaseImage *)

\* Two Builders, constructed from different option sets over fixed fragment files.
Builders   == {"b1", "b2"}
BuildFiles == [p \in DiskPaths |-> IF p = resolve("f1") THEN "a" ELSE "fm"]
BuilderOpts(b) == IF b = "b1" THEN [configs |-> <<"f1">>] ELSE [configs |-> <<"f2", "f1">>]
NameOf(b)  == BuilderName(BuilderOpts(b), BuildFiles)
Names      == {NameOf(b) : b \in Builders}

Methods == {"buildBaseImage", "configure"}

\* Where wlutil.getOpt('image-dir') lies: on the filesystem of
\* buildroot/output/images, on another filesystem, or nowhere (no such directory).
ImageDirs == {"sameFs", "otherFs", "missing"}

\* wlutil.getToolVersions() and os.cpu_count() of the build host.
HostToolVer  == [linuxMaj |-> "5", linuxMin |-> "4", gcc |-> "9"]
HostCpuCount == "4"
NoToolVer    == [linuxMaj |-> "", linuxMin |-> "", gcc |-> ""]

\* The seven lines written to gen-dir/brToolKfrag.
toolKfragText(tv, cpus) ==
    "BR2_TOOLCHAIN_EXTERNAL_HEADERS_" \o tv.linuxMaj \o "_" \o tv.linuxMin \o "=y\n"
    \o "BR2_TOOLCHAIN_HEADERS_AT_LEAST_" \o tv.linuxMaj \o "_" \o tv.linuxMin \o "=y\n"
    \o "BR2_TOOLCHAIN_HEADERS_AT_LEAST=\"" \o tv.linuxMaj \o "." \o tv.linuxMin \o "\"\n"
    \o "BR2_TOOLCHAIN_GCC_AT_LEAST_" \o tv.gcc \o "=y\n"
    \o "BR2_TOOLCHAIN_GCC_AT_LEAST=\"" \o tv.gcc \o "\"\n"
    \o "BR2_TOOLCHAIN_EXTERNAL_GCC_" \o tv.gcc \o "=y\n"
    \o "BR2_JLEVEL=" \o cpus \o "\n"

\* kFrags with the option fragments placed first.
kFragsOptsFirst(opts) == opts.configs \o <<"gen-dir/brDefConfig", "gen-dir/brToolKfrag">>

\* kFrags = [ defconfig, toolKfrag ] + self.opts['configs']
kFrags(opts) == <<"gen-dir/brDefConfig", "gen-dir/brToolKfrag">> \o opts.configs

\* A handler that turns every exception into a returned TaskFailed.
onExceptionCatchAll(method, exc) ==
    IF method = "buildBaseImage"
    THEN [kind |-> "returned", value |-> "TaskFailed", cause |-> exc]
    ELSE [kind |-> "raised", value |-> "", cause |-> exc]

\* How a call ends when a statement raises exc: buildBaseImage catches
\* SubmoduleError alone and returns TaskFailed(e); configure catches nothing.
onException(method, exc) ==
    IF method = "buildBaseImage" /\ exc = "SubmoduleError"
    THEN [kind |-> "returned", value |-> "TaskFailed", cause |-> exc]
    ELSE [kind |-> "raised", value |-> "", cause |-> exc]

\* Both methods end by falling off their last statement: None is returned.
ReturnedNone == [kind |-> "returned", value |-> None, cause |-> ""]

\* A .config-like file that was truncated, and one holding a part of a
\* configuration or a mix of two.
EmptyConfig == [state |-> "empty", frags |-> <<>>]
PartConfig  == [state |-> "partial", frags |-> <<>>]

\* The destination after the content src was written over it from offset 0:
\* src, or a mix when the destination held another, longer content.
copiedOver(dst, src) == IF dst \in {EmptyConfig, src} THEN {src} ELSE {src, PartConfig}

\* The destination after the copy of the content raised OSError part-way:
\* nothing written, or a part of the content over what it held.
failedCopy(dst) == {dst, PartConfig}

\* The image a make of call n of builder b wrote; an image file that was
\* truncated, and one holding a part of an image.
Image(b, n) == [exists |-> TRUE, by |-> b, run |-> n]
EmptyImage  == [exists |-> TRUE, data |-> "empty"]
PartImage   == [exists |-> TRUE, data |-> "partial"]

\* os.rename(src, dst) inside shutil.move: dst gets the file, src is gone.
shutilMove(src, dst) == [src |-> AbsentFile, dst |-> src]

\* What a copy reads from a source it opened earlier: the file it opened, or
\* the file now at the path when the tool that made it rewrote it in place.
readOpened(held, current) == {held} \cup (IF current = AbsentFile THEN {} ELSE {current})

LogEntry(step, args) == [step |-> step, args |-> args]
NotOpened == [exists |-> FALSE]
CallsStarted == runs["b1"] + runs["b2"]

BuildParked ==
    /\ pc = [b \in Builders |-> "idle"]
    /\ mid = [b \in Builders |-> ""]
    /\ op = [b \in Builders |-> "none"]
    /\ log = [b \in Builders |-> <<>>]
    /\ outcome = [b \in Builders |-> NotRun]
    /\ madeImg = [b \in Builders |-> AbsentFile]
    /\ outAtStart = [b \in Builders |-> AbsentFile]
    /\ runs = [b \in Builders |-> 0]
    /\ toolVer = [b \in Builders |-> NoToolVer]
    /\ opened = [b \in Builders |-> NotOpened]
    /\ imageDir = "sameFs"
    /\ imgOut = AbsentFile
    /\ images = [n \in Names |-> AbsentFile]
    /\ dotConfig = [state |-> "absent", frags |-> <<>>]
    /\ genToolKfrag = AbsentFile
    /\ genDefConfig = [state |-> "absent", frags |-> <<>>]

\* No call made yet, image-dir anywhere.
BuildInit ==
    /\ pc = [b \in Builders |-> "idle"]
    /\ mid = [b \in Builders |-> ""]
    /\ op = [b \in Builders |-> "none"]
    /\ log = [b \in Builders |-> <<>>]
    /\ outcome = [b \in Builders |-> NotRun]
    /\ madeImg = [b \in Builders |-> AbsentFile]
    /\ outAtStart = [b \in Builders |-> AbsentFile]
    /\ runs = [b \in Builders |-> 0]
    /\ toolVer = [b \in Builders |-> NoToolVer]
    /\ opened = [b \in Builders |-> NotOpened]
    /\ imageDir \in ImageDirs
    /\ imgOut = AbsentFile
    /\ images = [n \in Names |-> AbsentFile]
    /\ dotConfig = [state |-> "absent", frags |-> <<>>]
    /\ genToolKfrag = AbsentFile
    /\ genDefConfig = [state |-> "absent", frags |-> <<>>]

\* A statement of builder b raised exc: the call ends.
Raise(b, exc) ==
    /\ pc' = [pc EXCEPT ![b] = "idle"]
    /\ mid' = [mid EXCEPT ![b] = ""]
    /\ outcome' = [outcome EXCEPT ![b] = onException(op[b], exc)]

\* The statement is done: the call goes on to the statement next.
Goto(b, next) ==
    /\ pc' = [pc EXCEPT ![b] = next]
    /\ mid' = [mid EXCEPT ![b] = ""]
    /\ UNCHANGED outcome

\* The call stays inside its statement, at the point where.
Inside(b, where) ==
    /\ mid' = [mid EXCEPT ![b] = where]
    /\ UNCHANGED <<pc, outcome>>

\* The call returns None.
Return(b) ==
    /\ pc' = [pc EXCEPT ![b] = "idle"]
    /\ mid' = [mid EXCEPT ![b] = ""]
    /\ outcome' = [outcome EXCEPT ![b] = ReturnedNone]

Logged(b, step, args) == log' = [log EXCEPT ![b] = Append(@, LogEntry(step, args))]

\* builder.buildBaseImage() or builder.configure() is called.
Start(b, method) ==
    /\ UNCHANGED notBuildVars
    /\ pc[b] = "idle"
    /\ CallsStarted < MaxRuns
    /\ runs' = [runs EXCEPT ![b] = @ + 1]
    /\ op' = [op EXCEPT ![b] = method]
    /\ pc' = [pc EXCEPT ![b] = IF method = "buildBaseImage" THEN "checkSubmodule"
                                ELSE "getToolVersions"]
    /\ log' = [log EXCEPT ![b] = <<>>]
    /\ outcome' = [outcome EXCEPT ![b] = Running]
    /\ madeImg' = [madeImg EXCEPT ![b] = AbsentFile]
    /\ outAtStart' = [outAtStart EXCEPT ![b] = images[NameOf(b)]]
    /\ toolVer' = [toolVer EXCEPT ![b] = NoToolVer]
    /\ UNCHANGED <<mid, opened, imageDir, imgOut, images, dotConfig, genToolKfrag, genDefConfig>>

\* line 151: wlutil.checkSubmodule(br_dir / 'buildroot')
CheckSubmodule(b) ==
    /\ UNCHANGED notBuildVars
    /\ pc[b] = "checkSubmodule"
    /\ Logged(b, "checkSubmodule", <<>>)
    /\ \E ok \in BOOLEAN :
         IF ok THEN Goto(b, "getToolVersions") ELSE Raise(b, "SubmoduleError")
    /\ UNCHANGED <<op, madeImg, outAtStart, runs, toolVer, opened, imageDir,
                   imgOut, images, dotConfig, genToolKfrag, genDefConfig>>

\* line 122: toolVer = wlutil.getToolVersions()
GetToolVersions(b) ==
    /\ UNCHANGED notBuildVars
    /\ pc[b] = "getToolVersions"
    /\ Logged(b, "getToolVersions", <<>>)
    /\ \E ok \in BOOLEAN :
         IF ok THEN /\ Goto(b, "writeToolKfrag")
                    /\ toolVer' = [toolVer EXCEPT ![b] = HostToolVer]
         ELSE /\ Raise(b, "CalledProcessError")
              /\ UNCHANGED toolVer
    /\ UNCHANGED <<op, madeImg, outAtStart, runs, opened, imageDir,
                   imgOut, images, dotConfig, genToolKfrag, genDefConfig>>

\* line 125: open(toolKfrag, 'w') creates or truncates the file; when it
\* raises the file is as it was
OpenToolKfrag(b) ==
    /\ UNCHANGED notBuildVars
    /\ pc[b] = "writeToolKfrag" /\ mid[b] = ""
    /\ Logged(b, "writeToolKfrag", <<>>)
    /\ \E ok \in BOOLEAN :
         IF ok THEN /\ Inside(b, "afterOpen")
                    /\ genToolKfrag' = openW(genToolKfrag)
         ELSE /\ Raise(b, "OSError")
              /\ UNCHANGED genToolKfrag
    /\ UNCHANGED <<op, madeImg, outAtStart, runs, toolVer, opened, imageDir,
                   imgOut, images, dotConfig, genDefConfig>>

\* lines 126-132: the seven writes are buffered and reach the file when the
\* with block closes it; a write that fails leaves the bytes written so far
WriteToolKfrag(b) ==
    /\ UNCHANGED notBuildVars
    /\ pc[b] = "writeToolKfrag" /\ mid[b] = "afterOpen"
    /\ \E ok \in BOOLEAN :
         IF ok THEN /\ Goto(b, "makeDefconfig")
                    /\ genToolKfrag' = writeAt0(genToolKfrag,
                                                toolKfragText(toolVer[b], HostCpuCount))
         ELSE /\ Raise(b, "OSError")
              /\ genToolKfrag' \in failedWrite(genToolKfrag,
                                               toolKfragText(toolVer[b], HostCpuCount))
    /\ UNCHANGED <<op, log, madeImg, outAtStart, runs, toolVer, opened, imageDir,
                   imgOut, images, dotConfig, genDefConfig>>

\* line 136: wlutil.run(['make', 'defconfig'], cwd=buildroot)
MakeDefconfig(b) ==
    /\ UNCHANGED notBuildVars
    /\ pc[b] = "makeDefconfig"
    /\ Logged(b, "makeDefconfig", <<>>)
    /\ \E ok \in BOOLEAN :
         IF ok THEN /\ Goto(b, "copyDefconfig")
                    /\ dotConfig' = [state |-> "defconfig", frags |-> <<>>]
         ELSE /\ Raise(b, "CalledProcessError")
              /\ UNCHANGED dotConfig
    /\ UNCHANGED <<op, madeImg, outAtStart, runs, toolVer, opened, imageDir,
                   imgOut, images, genToolKfrag, genDefConfig>>

\* line 137, shutil.copy, first part: .config is opened for reading; the
\* copy holds the file that is there now
OpenDefconfig(b) ==
    /\ UNCHANGED notBuildVars
    /\ pc[b] = "copyDefconfig" /\ mid[b] = ""
    /\ Logged(b, "copyDefconfig", <<>>)
    /\ \E ok \in BOOLEAN :
         IF ok THEN /\ Inside(b, "afterSrcOpen")
                    /\ opened' = [opened EXCEPT ![b] = dotConfig]
         ELSE /\ Raise(b, "OSError")
              /\ UNCHANGED opened
    /\ UNCHANGED <<op, madeImg, outAtStart, runs, toolVer, imageDir,
                   imgOut, images, dotConfig, genToolKfrag, genDefConfig>>

\* line 137, shutil.copy, second part: defconfig is opened for writing,
\* which truncates it; when the open raises the file is as it was
OpenDefconfigDst(b) ==
    /\ UNCHANGED notBuildVars
    /\ pc[b] = "copyDefconfig" /\ mid[b] = "afterSrcOpen"
    /\ \E ok \in BOOLEAN :
         IF ok THEN /\ Inside(b, "afterDstOpen")
                    /\ genDefConfig' = EmptyConfig
                    /\ UNCHANGED opened
         ELSE /\ Raise(b, "OSError")
              /\ opened' = [opened EXCEPT ![b] = NotOpened]
              /\ UNCHANGED genDefConfig
    /\ UNCHANGED <<op, log, madeImg, outAtStart, runs, toolVer, imageDir,
                   imgOut, images, dotConfig, genToolKfrag>>

\* line 137, shutil.copy, third part: the content is copied
CopyDefconfig(b) ==
    /\ UNCHANGED notBuildVars
    /\ pc[b] = "copyDefconfig" /\ mid[b] = "afterDstOpen"
    /\ opened' = [opened EXCEPT ![b] = NotOpened]
    /\ \E ok \in BOOLEAN :
         IF ok THEN /\ Inside(b, "afterCopy")
                    /\ \E src \in readOpened(opened[b], dotConfig) :
                         genDefConfig' \in copiedOver(genDefConfig, src)
         ELSE /\ Raise(b, "OSError")
              /\ genDefConfig' \in failedCopy(genDefConfig)
    /\ UNCHANGED <<op, log, madeImg, outAtStart, runs, toolVer, imageDir,
                   imgOut, images, dotConfig, genToolKfrag>>

\* line 137, shutil.copy, last part: copymode, a chmod of the destination,
\* which raises (PermissionError) with the content copied in full
CopymodeDefconfig(b) ==
    /\ UNCHANGED notBuildVars
    /\ pc[b] = "copyDefconfig" /\ mid[b] = "afterCopy"
    /\ \E ok \in BOOLEAN :
         IF ok THEN Goto(b, "mergeConfig") ELSE Raise(b, "OSError")
    /\ UNCHANGED <<op, log, madeImg, outAtStart, runs, toolVer, opened, imageDir,
                   imgOut, images, dotConfig, genToolKfrag, genDefConfig>>

\* lines 139-141: wlutil.run([mergeScript] + kFrags, cwd=buildroot); configure
\* returns after it.
MergeConfig(b) ==
    /\ UNCHANGED notBuildVars
    /\ pc[b] = "mergeConfig"
    /\ Logged(b, "mergeConfig", kFrags(BuilderOpts(b)))
    /\ \E ok \in BOOLEAN :
         IF ok THEN /\ dotConfig' = [state |-> "merged", frags |-> kFrags(BuilderOpts(b))]
                    /\ IF op[b] = "configure" THEN Return(b) ELSE Goto(b, "make")
         ELSE /\ Raise(b, "CalledProcessError")
              /\ UNCHANGED dotConfig
    /\ UNCHANGED <<op, madeImg, outAtStart, runs, toolVer, opened, imageDir,
                   imgOut, images, genToolKfrag, genDefConfig>>

\* lines 155-157: wlutil.run(['make'], cwd=buildroot, env=env); buildroot
\* writes output/images/rootfs.ext2.
Make(b) ==
    /\ UNCHANGED notBuildVars
    /\ pc[b] = "make"
    /\ Logged(b, "make", <<>>)
    /\ \E ok \in BOOLEAN :
         IF ok THEN /\ Goto(b, "move")
                    /\ imgOut' = Image(b, runs[b])
                    /\ madeImg' = [madeImg EXCEPT ![b] = Image(b, runs[b])]
         ELSE /\ Raise(b, "CalledProcessError")
              /\ UNCHANGED <<imgOut, madeImg>>
    /\ UNCHANGED <<op, outAtStart, runs, toolVer, opened, imageDir,
                   images, dotConfig, genToolKfrag, genDefConfig>>

\* line 158, shutil.move, first part: os.rename(rootfs.ext2, outputImg). On
\* one filesystem it moves the file and the method returns; when it raises
\* OSError (no rootfs.ext2, no image-dir, another filesystem, or, with the
\* file there and on one filesystem, a rename that is not permitted)
\* shutil.move goes on to copy the file.
Move(b) ==
    /\ UNCHANGED notBuildVars
    /\ pc[b] = "move" /\ mid[b] = ""
    /\ Logged(b, "move", <<>>)
    /\ \E ok \in BOOLEAN :
         IF ok /\ imgOut.exists /\ imageDir = "sameFs"
         THEN /\ imgOut' = shutilMove(imgOut, images[NameOf(b)]).src
              /\ images' = [images EXCEPT ![NameOf(b)] =
                              shutilMove(imgOut, images[NameOf(b)]).dst]
              /\ Return(b)
         ELSE /\ Inside(b, "afterRename")
              /\ UNCHANGED <<imgOut, images>>
    /\ UNCHANGED <<op, madeImg, outAtStart, runs, toolVer, opened, imageDir,
                   dotConfig, genToolKfrag, genDefConfig>>

\* line 158, shutil.move, copy2: rootfs.ext2 is opened for reading
\* (FileNotFoundError without it); the copy holds the file that is there now
MoveOpen(b) ==
    /\ UNCHANGED notBuildVars
    /\ pc[b] = "move" /\ mid[b] = "afterRename"
    /\ IF ~imgOut.exists
       THEN /\ Raise(b, "FileNotFoundError")
            /\ UNCHANGED opened
       ELSE \E ok \in BOOLEAN :
              IF ok THEN /\ Inside(b, "afterSrcOpen")
                         /\ opened' = [opened EXCEPT ![b] = imgOut]
              ELSE /\ Raise(b, "OSError")
                   /\ UNCHANGED opened
    /\ UNCHANGED <<op, log, madeImg, outAtStart, runs, toolVer, imageDir,
                   imgOut, images, dotConfig, genToolKfrag, genDefConfig>>

\* line 158, shutil.move, copy2: outputImg is opened for writing, which
\* creates or truncates it (FileNotFoundError without image-dir); when the
\* open raises the file is as it was
MoveOpenDst(b) ==
    /\ UNCHANGED notBuildVars
    /\ pc[b] = "move" /\ mid[b] = "afterSrcOpen"
    /\ IF imageDir = "missing"
       THEN /\ Raise(b, "FileNotFoundError")
            /\ opened' = [opened EXCEPT ![b] = NotOpened]
            /\ UNCHANGED images
       ELSE \E ok \in BOOLEAN :
              IF ok THEN /\ Inside(b, "afterDstOpen")
                         /\ images' = [images EXCEPT ![NameOf(b)] = EmptyImage]
                         /\ UNCHANGED opened
              ELSE /\ Raise(b, "OSError")
                   /\ opened' = [opened EXCEPT ![b] = NotOpened]
                   /\ UNCHANGED images
    /\ UNCHANGED <<op, log, madeImg, outAtStart, runs, toolVer, imageDir,
                   imgOut, dotConfig, genToolKfrag, genDefConfig>>

\* line 158, shutil.move, copy2: the content is copied; a copy that fails
\* (no space left) leaves outputImg empty or holding a part of the image
MoveCopy(b) ==
    /\ UNCHANGED notBuildVars
    /\ pc[b] = "move" /\ mid[b] = "afterDstOpen"
    /\ opened' = [opened EXCEPT ![b] = NotOpened]
    /\ \E ok \in BOOLEAN :
         IF ok THEN /\ Inside(b, "afterCopy")
                    /\ \E src \in readOpened(opened[b], imgOut) :
                         images' = [images EXCEPT ![NameOf(b)] = src]
         ELSE /\ Raise(b, "OSError")
              /\ \E left \in {EmptyImage, PartImage} :
                   images' = [images EXCEPT ![NameOf(b)] = left]
    /\ UNCHANGED <<op, log, madeImg, outAtStart, runs, toolVer, imageDir,
                   imgOut, dotConfig, genToolKfrag, genDefConfig>>

\* line 158, shutil.move, copy2: copystat, which stats rootfs.ext2
\* (FileNotFoundError when another call took the file) and sets times and
\* mode of outputImg; when that raises the image is copied in full and
\* rootfs.ext2 is still in place
MoveCopystat(b) ==
    /\ UNCHANGED notBuildVars
    /\ pc[b] = "move" /\ mid[b] = "afterCopy"
    /\ IF ~imgOut.exists
       THEN Raise(b, "FileNotFoundError")
       ELSE \E ok \in BOOLEAN :
              IF ok THEN Inside(b, "afterStat") ELSE Raise(b, "OSError")
    /\ UNCHANGED <<op, log, madeImg, outAtStart, runs, toolVer, opened, imageDir,
                   imgOut, images, dotConfig, genToolKfrag, genDefConfig>>

\* line 158, shutil.move, last part: os.unlink(rootfs.ext2), which raises
\* FileNotFoundError when another call took the file and OSError
\* (PermissionError) when the file may not be removed: rootfs.ext2 stays,
\* with the image copied in full; the method returns after it.
MoveUnlink(b) ==
    /\ UNCHANGED notBuildVars
    /\ pc[b] = "move" /\ mid[b] = "afterStat"
    /\ IF imgOut.exists
       THEN \E ok \in BOOLEAN :
              IF ok THEN /\ imgOut' = AbsentFile
                         /\ Return(b)
              ELSE /\ Raise(b, "OSError")
                   /\ UNCHANGED imgOut
       ELSE /\ Raise(b, "FileNotFoundError")
            /\ UNCHANGED imgOut
    /\ UNCHANGED <<op, log, madeImg, outAtStart, runs, toolVer, opened, imageDir,
                   images, dotConfig, genToolKfrag, genDefConfig>>

-----------------------------------------------------------------------------
(* Specifications *)

\* Builders whose calls are started by the caller at any time: nothing in
\* the module keeps two calls from being interleaved.
Init == BuildInit /\ HashParked /\ MergeParked /\ UartParked /\ OverlayParked
Next ==
    \E b \in Builders :
        \/ \E m \in Methods : Start(b, m)
        \/ CheckSubmodule(b)
        \/ GetToolVersions(b)
        \/ OpenToolKfrag(b)
        \/ WriteToolKfrag(b)
        \/ MakeDefconfig(b)
        \/ OpenDefconfig(b)
        \/ OpenDefconfigDst(b)
        \/ CopyDefconfig(b)
        \/ CopymodeDefconfig(b)
        \/ MergeConfig(b)
        \/ Make(b)
        \/ Move(b)
        \/ MoveOpen(b)
        \/ MoveOpenDst(b)
        \/ MoveCopy(b)
        \/ MoveCopystat(b)
        \/ MoveUnlink(b)
Spec == Init /\ [][Next]_vars

\* Fingerprints, Builder identity and the up-to-date signals: one Builder is
\* constructed and asked upToDate(), while fragment files are rewritten, the
\* checkout moves and initOpts is run on the cfg that holds its opts.
InitHash == HashInit /\ BuildParked /\ MergeParked /\ UartParked /\ OverlayParked
NextHash ==
    \/ NewBuilder
    \/ UpToDate
    \/ ReadFragment
    \/ InitOpts
    \/ RecordUpToDate
    \/ WriteFragment
    \/ RepoChange
SpecHash == InitHash /\ [][NextHash]_vars

\* mergeOpts on three option sets.
InitMerge == MergeInit /\ BuildParked /\ HashParked /\ UartParked /\ OverlayParked
NextMerge == MergeFirst \/ MergeSecond
SpecMerge == InitMerge /\ [][NextMerge]_vars

\* stripUart on a console log.
InitUart == UartInit /\ BuildParked /\ HashParked /\ MergeParked /\ OverlayParked
NextUart == StripUart
SpecUart == InitUart /\ [][NextUart]_vars

\* Calls of generateBootScriptOverlay by two callers: nothing in the module
\* keeps a call from starting while another is under way.
InitOverlay == OverlayInit /\ BuildParked /\ HashParked /\ MergeParked /\ UartParked
NextOverlay ==
    \E c \in Callers :
        \/ GenerateBootScriptOverlay(c)
        \/ CopyOpenSrc(c)
        \/ CopyOpenDst(c)
        \/ CopyData(c)
        \/ Copymode(c)
        \/ Unlink(c)
        \/ Touch(c)
        \/ Chmod(c)
        \/ OpenInit(c)
        \/ WriteInit(c)
SpecOverlay == InitOverlay /\ [][NextOverlay]_vars

-----------------------------------------------------------------------------
(* Properties *)

Last(seq) == seq[Len(seq)]
Range(seq) == {seq[i] : i \in 1..Len(seq)}
StepsOf(l) == [i \in 1..Len(l) |-> l[i].step]
IsPrefixOf(s, t) == Len(s) <= Len(t) /\ \A i \in 1..Len(s) : s[i] = t[i]
Ended(b) == pc[b] = "idle" /\ outcome[b].kind \in {"returned", "raised"}

ConfigureSteps ==
    <<"getToolVersions", "writeToolKfrag", "makeDefconfig", "copyDefconfig", "mergeConfig">>
BuildSteps == <<"checkSubmodule">> \o ConfigureSteps \o <<"make", "move">>

\* C1: buildBaseImage() returns TaskFailed exactly when checkSubmodule raised
\* SubmoduleError, and then checkSubmodule is the only step that was run (no
\* configure step, no make, no move); a call that ended on a failure of any
\* other step ended with that exception raised to the caller, not with a
\* returned value.
C1_OnlySubmoduleFailureIsReturned ==
    \A b \in Builders :
        (op[b] = "buildBaseImage" /\ Ended(b)) =>
            /\ outcome[b].value = "TaskFailed" =>
                   /\ outcome[b].cause = "SubmoduleError"
                   /\ StepsOf(log[b]) = <<"checkSubmodule">>
            /\ StepsOf(log[b]) = <<"checkSubmodule">> =>
                   outcome[b] = [kind |-> "returned", value |-> "TaskFailed",
                                 cause |-> "SubmoduleError"]
            /\ (outcome[b].cause # "" /\ Last(log[b]).step # "checkSubmodule") =>
                   /\ outcome[b].kind = "raised"
                   /\ outcome[b].cause # "SubmoduleError"

\* C1 witness: one call returned TaskFailed and another ended with an
\* exception raised by a later step.
C1_Witness ==
    /\ op["b1"] = "buildBaseImage" /\ Ended("b1") /\ outcome["b1"].value = "TaskFailed"
    /\ op["b2"] = "buildBaseImage" /\ Ended("b2") /\ outcome["b2"].kind = "raised"
    /\ Last(log["b2"]).step = "make"

MovesIn(l) == Cardinality({i \in 1..Len(l) : l[i].step = "move"})

\* C2: every step that ends a buildBaseImage() call either ends it with None
\* returned, every step run, the image its make wrote at the Builder's
\* outputImg (moved there once) and rootfs.ext2 gone, or ends it in failure
\* with the file at outputImg the one found when the call began.
C2_NoPartialSuccess ==
    [][\A b \in Builders :
          (op[b] = "buildBaseImage" /\ pc[b] # "idle" /\ pc'[b] = "idle") =>
              \/ /\ outcome'[b] = ReturnedNone
                 /\ StepsOf(log'[b]) = BuildSteps
                 /\ MovesIn(log'[b]) = 1
                 /\ madeImg[b].exists
                 /\ images'[NameOf(b)] = madeImg[b]
                 /\ imgOut' = AbsentFile
              \/ /\ outcome'[b] # ReturnedNone
                 /\ outcome'[b].cause # ""
                 /\ images'[NameOf(b)] = outAtStart[b]]_vars

ConfigureLog(b) == SelectSeq(log[b], LAMBDA e : e.step \in Range(ConfigureSteps))
MergeCalls(b) == SelectSeq(log[b], LAMBDA e : e.step = "mergeConfig")
ConfigureDone(b) ==
    \/ op[b] = "configure" /\ Ended(b) /\ outcome[b] = ReturnedNone
    \/ op[b] = "buildBaseImage" /\ pc[b] \in {"make", "move"}

\* C9: the steps configure() has run are always an initial part of: tool
\* version discovery, write of the toolchain fragment, make defconfig, copy of
\* the baseline fragment, merge tool; the merge tool is run at most once, and
\* exactly once when configure() has completed, with the arguments baseline
\* fragment, toolchain fragment, then the fragments of opts in their order; a
\* call that ended on a failure of a configure step ended with the exception raised
\* and with neither make nor the move run.
C9_ConfigureOrder ==
    \A b \in Builders :
        /\ IsPrefixOf(StepsOf(ConfigureLog(b)), ConfigureSteps)
        /\ Len(MergeCalls(b)) <= 1
        /\ ConfigureDone(b) => Len(MergeCalls(b)) = 1
        /\ \A i \in 1..Len(MergeCalls(b)) :
               LET args == MergeCalls(b)[i].args
                   cfgs == BuilderOpts(b).configs
               IN  /\ Len(args) = 2 + Len(cfgs)
                   /\ args[1] = "gen-dir/brDefConfig"
                   /\ args[2] = "gen-dir/brToolKfrag"
                   /\ \A k \in 1..Len(cfgs) : args[2 + k] = cfgs[k]
        /\ (Ended(b) /\ outcome[b].cause # ""
              /\ Last(log[b]).step \in Range(ConfigureSteps)) =>
               /\ outcome[b].kind = "raised"
               /\ \A i \in 1..Len(log[b]) : log[b][i].step \notin {"make", "move"}

\* C9 witness: one configure() call completed after all five steps, and a
\* call of the other Builder ended on a failure of make defconfig.
C9_Witness ==
    /\ op["b2"] = "configure" /\ Ended("b2") /\ outcome["b2"] = ReturnedNone
    /\ StepsOf(log["b2"]) = ConfigureSteps
    /\ Last(log["b2"]).args = <<"gen-dir/brDefConfig", "gen-dir/brToolKfrag", "f2", "f1">>
    /\ Ended("b1") /\ outcome["b1"].kind = "raised"
    /\ Last(log["b1"]).step = "makeDefconfig"

\* C10: for two Builders with different names whose buildBaseImage() calls
\* are interleaved, image-dir being there, a call that returned normally left
\* at the Builder's outputImg the image written by its own make, and no call
\* ends with the move failing for lack of rootfs.ext2.
C10_DistinctBuildersIsolated ==
    (NameOf("b1") # NameOf("b2") /\ imageDir # "missing") =>
        \A b \in Builders :
            (op[b] = "buildBaseImage" /\ Ended(b)) =>
                /\ outcome[b] = ReturnedNone => images[NameOf(b)] = madeImg[b]
                /\ outcome[b].cause # "FileNotFoundError"

-----------------------------------------------------------------------------

HasConfigs(opts) == "configs" \in DOMAIN opts

\* C3: a Builder constructed from an option set with an empty fragment list
\* or with no fragment list has fingerprint None, name "br" and output path
\* <image-dir>/br.img.
C3_AbsentFingerprint ==
    (bOpts # NoBuilder /\ (~HasConfigs(bOpts) \/ bOpts.configs = <<>>)) =>
        /\ hashOpts(bOpts, files) = None
        /\ bName = "br"
        /\ bOutputImg = "image-dir/br.img"

\* The bytes of the fragments of a list, one file after the other.
RECURSIVE ContentsInOrder(_, _)
ContentsInOrder(configs, fs) ==
    IF Len(configs) = 0 THEN ""
    ELSE ContentsInOrder(SubSeq(configs, 1, Len(configs) - 1), fs)
         \o fs[resolve(Last(configs))]

\* A step that changes the content of exactly one fragment file of the
\* Builder's option set, taken when the recorded option value is up to date.
OneFragmentChanged ==
    /\ bOpts # NoBuilder /\ HasConfigs(bOpts)
    /\ savedOpt = hashOpts(bOpts, files)
    /\ \E p \in Range(bOpts.configs) :
           /\ files'[resolve(p)] # files[resolve(p)]
           /\ \A q \in DiskPaths \ {resolve(p)} : files'[q] = files[q]

\* C8 as stated: after the content of one fragment file of an up-to-date
\* Builder changes, the option signal of upToDate() reports changed.
C8_AnyChangeDetected ==
    [][OneFragmentChanged =>
          upToDate(bOpts', files', repoStatus', savedRepo', savedOpt').opt]_vars

\* C8 amended: after the content of one fragment file of an up-to-date Builder
\* changes, the option signal of upToDate() reports changed whenever the first
\* two bytes of the MD5 digest of the concatenated fragment contents differ
\* from those before the change.
C8_ChangeDetectedUnlessPrefixCollides ==
    [][(/\ OneFragmentChanged
        /\ md5Digest2(ContentsInOrder(bOpts.configs, files'))
             # md5Digest2(ContentsInOrder(bOpts.configs, files))) =>
          upToDate(bOpts', files', repoStatus', savedRepo', savedOpt').opt]_vars

\* C8 witness: upToDate() was called after a fragment of a recorded Builder
\* changed, and its option signal reports changed.
C8_Witness ==
    /\ bOpts # NoBuilder /\ HasConfigs(bOpts) /\ Len(bOpts.configs) = 2
    /\ savedOpt \notin {"unset", None}
    /\ savedOpt # hashOpts(bOpts, files)
    /\ upToDateRes.called /\ upToDateRes.opt /\ ~upToDateRes.repo

-----------------------------------------------------------------------------

IsConcat(r, a, b) ==
    /\ Len(r) = Len(a) + Len(b)
    /\ \A i \in 1..Len(a) : r[i] = a[i]
    /\ \A i \in 1..Len(b) : r[Len(a) + i] = b[i]

\* C7: each mergeOpts call returns base's fragments followed by new's, every
\* fragment kept in place (duplicates too), and leaves both arguments as they
\* were; merging the result with a third option set gives the fragments of
\* the first, the second and the third, in that order.
C7_MergeIsConcatenation ==
    [][/\ mAB' # mAB =>
            /\ IsConcat(mAB'.configs, mBase.configs, mNew.configs)
            /\ DOMAIN mAB' = {"configs"}
            /\ mBase' = mBase /\ mNew' = mNew
       /\ mABC' # mABC =>
            /\ \E ab \in SeqsUpTo(FragPaths, 2 * MaxFrags) :
                   /\ IsConcat(ab, mBase.configs, mNew.configs)
                   /\ IsConcat(mABC'.configs, ab, mThird.configs)
            /\ mAB' = mAB /\ mBase' = mBase /\ mNew' = mNew /\ mThird' = mThird]_vars

\* C7 witness: three option sets with a repeated fragment were merged.
C7_Witness ==
    /\ mBase.configs = <<"f1", "f1">> /\ mNew.configs = <<"f2">>
    /\ mThird.configs = <<"f1", "f2">>
    /\ mAB # NotMerged /\ mABC # NotMerged
    /\ mABC.configs = <<"f1", "f1", "f2", "f1", "f2">>

-----------------------------------------------------------------------------

FirstIndex(lines, pat, from) ==
    LET hits == {i \in from..Len(lines) : reMatch(pat, lines[i])}
    IN  IF hits = {} THEN 0 ELSE CHOOSE i \in hits : \A j \in hits : i <= j

\* The lines between the first start sentinel and the first completion
\* sentinel after it (the end of the log when there is none).
Window(lines) ==
    LET s == FirstIndex(lines, StartPat, 1)
        d == IF s = 0 THEN 0 ELSE FirstIndex(lines, DonePat, s + 1)
    IN  IF s = 0 THEN <<>>
        ELSE SubSeq(lines, s + 1, (IF d = 0 THEN Len(lines) + 1 ELSE d) - 1)

\* C6: stripUart returns the lines strictly between the first line matching
\* the start sentinel and the first line matching the completion sentinel
\* after it, and the empty sequence when no line matches the start sentinel.
C6_StripUartWindow ==
    uartOut.called => uartOut.ret = Window(uartLines)

\* C6 witness: a log with a line before the start sentinel and a line after
\* the completion sentinel, of which stripUart returned the one body line.
C6_Witness ==
    /\ uartOut.called
    /\ Len(uartLines) = 5
    /\ uartLines[1] = "noise" /\ uartLines[2] = StartPat
    /\ uartLines[4] = DonePat /\ uartLines[5] = "noise"
    /\ uartOut.ret = <<uartLines[3]>>

-----------------------------------------------------------------------------

\* The step ends a call of caller c.
OvEnds(c) == ovPc[c] # "idle" /\ ovPc'[c] = "idle"

\* C4: a generateBootScriptOverlay(None, None) call that began right after a
\* call with a script had returned, and during which no other call ran,
\* leaves overlay/firesim.sh present however it ends, and empty with mode
\* 0755 when it returns.
C4_Tombstone ==
    [][\A c \in Callers :
          (/\ OvEnds(c)
           /\ ovArg[c] = NoCall
           /\ ovFollows[c]) =>
              /\ ovScript'.exists
              /\ ovOut'[c] = ReturnedOverlay =>
                     ovScript' = File("", "0755")]_vars

\* The init wrapper whose start() runs /firesim.sh with the argument string a.
WrapperFor(a) ==
    "#!/bin/sh\n\nSYSLOGD_ARGS=-n\nKLOGD_ARGS=-n\n\nstart() {\n    echo \"launching firesim workload run/command\" && /firesim.sh "
    \o a
    \o " && echo \"firesim workload run/command done\"\n}\n\ncase \"$1\" in\n  start)\n  start\n  ;;\n  stop)\n  #stop\n  ;;\n  restart|reload)\n  start\n  ;;\n  *)\n  echo \"Usage: $0 {start|stop|restart}\"\n  exit 1\nesac\n\nexit"

\* C5: after every generateBootScriptOverlay call (script None, or a script
\* that exists) during which no other call ran and no file operation failed
\* with an I/O error, whether overlay/firesim.sh existed or not, the init
\* wrapper runs /firesim.sh with the space-joined args of that call, or with
\* the empty string when args is None.
C5_WrapperFollowsLastCall ==
    [][\A c \in Callers :
          (/\ OvEnds(c)
           /\ ovAlone[c]
           /\ ovArg[c].script.given => ScriptFiles[ovArg[c].script.path].exists
           /\ ovOut'[c].cause # "OSError") =>
              ovInit'.content = WrapperFor(IF ovArg[c].args.given
                                           THEN join(" ", ovArg[c].args.list)
                                           ELSE "")]_vars

=============================================================================
